---- MODULE Spec2Model ----
(***************************************************************************)
(* Builder-pattern examples of design-patterns-cpp.                        *)
(*                                                                         *)
(* A std::string is a sequence of one-character strings, so that           *)
(* indentation, line ends and concatenation are what the code makes them.  *)
(* Objects live in a heap keyed by the variable (or temporary) that holds  *)
(* them; a C++ reference is the key of the object it refers to.            *)
(***************************************************************************)
EXTENDS Integers, Sequences, FiniteSets, TLC

\* ------------------------------------------------------------------ bounds

\* the longest sequence of add_child calls one builder receives
MaxChildren == 2

\* the most nodes of an HTMLElement tree handed to str
MaxNodes == 4

\* the most attributes of a Tag, and the deepest nesting of Tags
MaxAttrs == 2
MaxTagDepth == 2

\* the most conversions to Person tried on one builder chain
MaxFinalize == 2

\* the most add_entry calls of one program run
MaxCalls == 4

\* ------------------------------------------------------------ string data

ul == <<"u", "l">>
li == <<"l", "i">>
Hello == <<"H", "e", "l", "l", "o">>
World == <<"W", "o", "r", "l", "d">>
Empty == << >>

\* the root names and the (child_name, child_text) arguments a run may use
RootNames == {ul, li}
ChildArgs ==
  { [name |-> li, text |-> Hello],
    [name |-> li, text |-> World],
    [name |-> ul, text |-> Empty] }
ArgSeqs == UNION { [1..n -> ChildArgs] : n \in 0..MaxChildren }

\* std::string(n, ' ')
Spaces(n) == [k \in 1..n |-> " "]

\* ------------------------------------------------------------ HTMLElement

indent_size == 2

\* HTMLElement() = default
HTMLElement_default == [name |-> Empty, text |-> Empty, elements |-> << >>]

\* HTMLElement(name, text)
HTMLElement_ctor(name, text) == [name |-> name, text |-> text, elements |-> << >>]

RECURSIVE str(_, _)
RECURSIVE str_elements(_, _, _, _)

\* the loop  for (const auto& e : elements) result += e.str(indent + 1);
str_elements(elements, k, indent, result) ==
  IF k > Len(elements)
    THEN result
    ELSE str_elements(elements, k + 1, indent, result \o str(elements[k], indent + 1))

\* str with the text line indented like the tags (indent instead of indent + 1)
str_text_at_tag_indent(e, indent) ==
  LET i == Spaces(indent_size * indent)
      r0 == i \o <<"<">> \o e.name \o <<">", "\n">>
      r1 == IF Len(e.text) > 0
              THEN r0 \o Spaces(indent_size * indent) \o e.text \o <<"\n">>
              ELSE r0
      r2 == str_elements(e.elements, 1, indent, r1)
  IN  r2 \o i \o <<"<", "/">> \o e.name \o <<">", "\n">>

\* std::string HTMLElement::str(int indent) const
str(e, indent) ==
  LET i == Spaces(indent_size * indent)
      r0 == i \o <<"<">> \o e.name \o <<">", "\n">>
      r1 == IF Len(e.text) > 0
              THEN r0 \o Spaces(indent_size * (indent + 1)) \o e.text \o <<"\n">>
              ELSE r0
      r2 == str_elements(e.elements, 1, indent, r1)
  IN  r2 \o i \o <<"<", "/">> \o e.name \o <<">", "\n">>

\* ------------------------------------------------------------ HTMLBuilder

NoObjects == [a \in {} |-> 0]

Remove(h, a) == [x \in (DOMAIN h) \ {a} |-> h[x]]

\* HTMLBuilder::HTMLBuilder(root_name): root is default-constructed, then named
HTMLBuilder_ctor(h, this, name) ==
  (this :> [root |-> [HTMLElement_default EXCEPT !.name = name]]) @@ h

\* add_child inserting the new child at the front of root.elements
add_child_at_front(h, this, child_name, child_text) ==
  [ heap |-> [h EXCEPT ![this].root.elements =
                         <<HTMLElement_ctor(child_name, child_text)>> \o @],
    ret  |-> this ]

\* add_child declared to return HTMLBuilder instead of HTMLBuilder&: the caller
\* gets a copy of the builder, made after the append
add_child_returning_copy(h, this, child_name, child_text) ==
  LET h1 == [h EXCEPT ![this].root.elements =
                        Append(@, HTMLElement_ctor(child_name, child_text))]
  IN  [ heap |-> ("copy" :> h1[this]) @@ h1,
        ret  |-> "copy" ]

\* add_child assigning the child's name to the root as well
add_child_renaming_root(h, this, child_name, child_text) ==
  [ heap |-> [h EXCEPT ![this].root =
                [@ EXCEPT !.name = child_name,
                          !.elements = Append(@, HTMLElement_ctor(child_name, child_text))]],
    ret  |-> this ]

\* add_child appending below the last child once the root has one
add_child_under_last_child(h, this, child_name, child_text) ==
  LET es == h[this].root.elements
      new == HTMLElement_ctor(child_name, child_text)
  IN  [ heap |-> [h EXCEPT ![this].root.elements =
                    IF es = << >>
                      THEN <<new>>
                      ELSE [es EXCEPT ![Len(es)].elements = Append(@, new)]],
        ret  |-> this ]

\* HTMLBuilder& HTMLBuilder::add_child(child_name, child_text): the heap after
\* the emplace_back, and the reference returned (*this)
HTMLBuilder_add_child(h, this, child_name, child_text) ==
  [ heap |-> [h EXCEPT ![this].root.elements =
                         Append(@, HTMLElement_ctor(child_name, child_text))],
    ret  |-> this ]

\* std::string HTMLBuilder::str() const
HTMLBuilder_str(h, this) == str(h[this].root, 0)

\* HTMLBuilder HTMLElement::build(root_name): the builder is a temporary
HTMLElement_build(h, name) == HTMLBuilder_ctor(h, "temporary", name)

\* HTMLBuilder::operator HTMLElement() const: the finished root, by value
HTMLBuilder_operator_HTMLElement(h, this) == h[this].root

\* -------------------------------------------------------------------- Tag

p_ == <<"p">>
img == <<"i", "m", "g">>
src == <<"s", "r", "c">>
alt == <<"a", "l", "t">>
x_png == <<"x", ".", "p", "n", "g">>
y_png == <<"y", ".", "p", "n", "g">>
a_quote_b == <<"a", "\"", "b">>
Hi == <<"H", "i">>

\* Tag::Tag(name, text)
Tag_ctor_text(name, text) ==
  [name |-> name, text |-> text, children |-> << >>, attributes |-> << >>]

\* Tag::Tag(name, children)
Tag_ctor_children(name, children) ==
  [name |-> name, text |-> Empty, children |-> children, attributes |-> << >>]

\* explicit P(const std::string& text)
P_text(text) == Tag_ctor_text(p_, text)

\* P(std::initializer_list<Tag> children)
P_children(children) == Tag_ctor_children(p_, children)

\* explicit IMG(const std::string& url)
IMG(url) ==
  [Tag_ctor_text(img, Empty) EXCEPT !.attributes = Append(@, <<src, url>>)]

RECURSIVE Tag_print(_, _)
RECURSIVE Tag_print_children(_, _, _)
RECURSIVE Tag_print_attributes(_, _, _)

\* for (const auto& att : tag.attributes) os << " " << first << "=\"" << second << "\"";
Tag_print_attributes(o, attributes, k) ==
  IF k > Len(attributes)
    THEN o
    ELSE Tag_print_attributes(
           o \o <<" ">> \o attributes[k][1] \o <<"=", "\"">> \o attributes[k][2] \o <<"\"">>,
           attributes, k + 1)

\* for (const auto& child : tag.children) os << child;
Tag_print_children(o, children, k) ==
  IF k > Len(children)
    THEN o
    ELSE Tag_print_children(Tag_print(o, children[k]), children, k + 1)

\* operator<< that self-closes every childless tag, whether or not it has text
Tag_print_selfclose_ignoring_text(o, t) ==
  LET o1 == Tag_print_attributes(o \o <<"<">> \o t.name, t.attributes, 1)
  IN  IF Len(t.children) = 0
        THEN o1 \o <<"/", ">", "\n">>
        ELSE LET o2 == o1 \o <<">", "\n">>
                 o3 == IF Len(t.text) # 0 THEN o2 \o t.text \o <<"\n">> ELSE o2
                 o4 == Tag_print_children(o3, t.children, 1)
             IN  o4 \o <<"<", "/">> \o t.name \o <<">", "\n">>

\* operator<< that writes the value of the first attribute with the same key
Tag_print_first_value_per_key(o, t) ==
  LET first(k) == CHOOSE j \in 1..k : /\ t.attributes[j][1] = t.attributes[k][1]
                                      /\ \A h \in 1..(j - 1) :
                                           t.attributes[h][1] # t.attributes[k][1]
      merged == [k \in 1..Len(t.attributes) |->
                   <<t.attributes[k][1], t.attributes[first(k)][2]>>]
      o1 == Tag_print_attributes(o \o <<"<">> \o t.name, merged, 1)
  IN  IF Len(t.children) = 0 /\ Len(t.text) = 0
        THEN o1 \o <<"/", ">", "\n">>
        ELSE LET o2 == o1 \o <<">", "\n">>
                 o3 == IF Len(t.text) # 0 THEN o2 \o t.text \o <<"\n">> ELSE o2
                 o4 == Tag_print_children(o3, t.children, 1)
             IN  o4 \o <<"<", "/">> \o t.name \o <<">", "\n">>

\* std::ostream& operator<<(std::ostream& os, const Tag& tag); std::endl is "\n"
Tag_print(o, t) ==
  LET o1 == Tag_print_attributes(o \o <<"<">> \o t.name, t.attributes, 1)
  IN  IF Len(t.children) = 0 /\ Len(t.text) = 0
        THEN o1 \o <<"/", ">", "\n">>
        ELSE LET o2 == o1 \o <<">", "\n">>
                 o3 == IF Len(t.text) # 0 THEN o2 \o t.text \o <<"\n">> ELSE o2
                 o4 == Tag_print_children(o3, t.children, 1)
             IN  o4 \o <<"<", "/">> \o t.name \o <<">", "\n">>

\* ----------------------------------------------------------------- Person

\* the heap buffers of a Person's strings: those Person::create() allocated,
\* none (a moved-from Person), and those a copy would allocate
CreatedStorage == <<"created by Person::create", 0>>
NoStorage == <<"none", 0>>
CopyStorage(result) == <<"allocated by copy", result[2]>>

\* the Person member p of the PersonBuilder, and the n-th Person a caller
\* initialises from the chain
BuilderP == <<"builder.p", 0>>
ResultNo(n) == <<"result", n>>

\* Person(): empty strings, no income
Person_default ==
  [ street_address |-> "", post_code |-> "", city |-> "",
    company_name |-> "", position |-> "", annual_income |-> 0,
    storage |-> CreatedStorage ]

\* a Person whose contents were moved away
Person_moved_from ==
  [ street_address |-> "", post_code |-> "", city |-> "",
    company_name |-> "", position |-> "", annual_income |-> 0,
    storage |-> NoStorage ]

\* Person::create(): a PersonBuilder owning a fresh Person p
Person_create(ps) == (BuilderP :> Person_default) @@ ps

\* PersonBuilderBase::lives() / works(): a facet builder on the same Person&
PersonBuilderBase_facet(person) == person

\* a setter that keeps a value already set
set_field_keeping_first(ps, person, field, value) ==
  IF ps[person][field] = Person_default[field]
    THEN [ps EXCEPT ![person][field] = value]
    ELSE ps

\* person.<field> = value; return *this;
set_field(ps, person, field, value) == [ps EXCEPT ![person][field] = value]

\* PersonAddressBuilder::at keeping an address already set
at_keeping_first(ps, person, address) ==
  set_field_keeping_first(ps, person, "street_address", address)

\* PersonAddressBuilder& at(address) { person.street_address = address; return *this; }
PersonAddressBuilder_at(ps, person, address) ==
  set_field(ps, person, "street_address", address)

PersonAddressBuilder_with_postcode(ps, person, post_code) ==
  set_field(ps, person, "post_code", post_code)

PersonAddressBuilder_in(ps, person, city) ==
  set_field(ps, person, "city", city)

PersonJobBuilder_at(ps, person, company_name) ==
  set_field(ps, person, "company_name", company_name)

PersonJobBuilder_as_a(ps, person, position) ==
  set_field(ps, person, "position", position)

PersonJobBuilder_earning(ps, person, annual_income) ==
  set_field(ps, person, "annual_income", annual_income)

\* a conversion that copies the Person and leaves the builder's as it was
operator_Person_copying(ps, person, result) ==
  (result :> [ps[person] EXCEPT !.storage = CopyStorage(result)]) @@ ps

\* operator Person(): the caller's Person is move-constructed from person
PersonBuilderBase_operator_Person(ps, person, result) ==
  (result :> ps[person]) @@ [ps EXCEPT ![person] = Person_moved_from]

\* ---------------------------------------------------------------- Journal

cried == <<"I", " ", "c", "r", "i", "e", "d", " ", "t", "o", "d", "a", "y", ".">>
bug == <<"I", " ", "a", "t", "e", " ", "a", " ", "b", "u", "g", ".">>

DigitChars == <<"0", "1", "2", "3", "4", "5", "6", "7", "8", "9">>

RECURSIVE to_string(_)
\* std::to_string(int) of a number that is not negative
to_string(n) ==
  IF n < 10
    THEN <<DigitChars[n + 1]>>
    ELSE to_string(n \div 10) \o <<DigitChars[(n % 10) + 1]>>

\* Journal(title)
Journal_ctor(js, j, title) == (j :> [title |-> title, entries |-> << >>]) @@ js

\* add_entry numbering with the journal's own number of entries
add_entry_counting_per_journal(js, c, j, entry) ==
  [ journals |-> [js EXCEPT ![j].entries =
                    Append(@, to_string(Len(@) + 1) \o <<":", " ">> \o entry)],
    count    |-> c + 1 ]

\* void Journal::add_entry(entry): c is the function's static int count
Journal_add_entry(js, c, j, entry) ==
  [ journals |-> [js EXCEPT ![j].entries =
                    Append(@, to_string(c) \o <<":", " ">> \o entry)],
    count    |-> c + 1 ]

RECURSIVE save_entries(_, _, _)
\* for (const auto& entry : j.entries) ofs << entry << endl;
save_entries(ofs, entries, k) ==
  IF k > Len(entries)
    THEN ofs
    ELSE save_entries(ofs \o entries[k] \o <<"\n">>, entries, k + 1)

\* PersistenceManager::save(j, filename): ofstream ofs(filename) starts the
\* file anew
PersistenceManager_save(fs, j, filename) ==
  (filename :> save_entries(<< >>, j.entries, 1)) @@ fs

\* ------------------------------------------------------------------ state

VARIABLES
  root_name,    \* input: the root name every approach of main is given
  pairs,        \* input: the (name, text) arguments, in call order
  heap,         \* the live HTMLBuilder objects
  ref,          \* the HTMLBuilder& the last add_child of a chain returned
  elem,         \* the live HTMLElement variables (static_builder)
  calls,        \* add_child calls made so far, per approach
  out,          \* what str() last returned, per approach
  outAt         \* how many add_child calls preceded that str()

VARIABLES
  node,         \* the HTMLElement tree handed to HTMLElement::str
  rendered      \* what str(0) returned for it, once called

VARIABLES
  tag,          \* the Tag a statement has constructed
  os            \* the characters written to the output stream

VARIABLES
  persons,      \* the live Person objects: the builder's p and the callers' results
  facet,        \* the type of the builder the chain expression currently is
  target,       \* the Person& that builder holds
  finalized,    \* conversions to Person made so far
  lastSet,      \* per field set so far, the value its last setter call was given
  revisit       \* per "at" field: 1 set, 2 then the other facet visited, 3 then
                \* set again with another value

VARIABLES
  journals,     \* the live Journal objects
  count,        \* the static int count of Journal::add_entry
  files,        \* the contents of the files written
  log,          \* the add_entry calls of the program so far: journal and text
  savedFrom     \* per file: the journal last saved to it and its length then

builderVars == <<root_name, pairs, heap, ref, elem, calls, out, outAt>>
journalVars == <<journals, count, files, log, savedFrom>>
personVars == <<persons, facet, target, finalized, lastSet, revisit>>
elementVars == <<node, rendered>>
tagVars == <<tag, os>>

vars == <<builderVars, elementVars, tagVars, personVars, journalVars>>

Approaches == {"builder", "fluent_builder", "static_builder"}
NoRef == "none"

\* the parts of the repository are separate programs: while one runs, the
\* state of the others stays as it is here
BuilderIdle ==
  /\ root_name = ul
  /\ pairs = << >>
  /\ heap = NoObjects
  /\ ref = NoRef
  /\ elem = NoObjects
  /\ calls = [a \in Approaches |-> 0]
  /\ out = NoObjects
  /\ outAt = NoObjects

ElementIdle ==
  /\ node = HTMLElement_default
  /\ rendered = NoObjects

TagIdle ==
  /\ tag = Tag_ctor_text(Empty, Empty)
  /\ os = << >>

JournalIdle ==
  /\ journals = NoObjects
  /\ count = 1
  /\ files = NoObjects
  /\ log = << >>
  /\ savedFrom = NoObjects

PersonIdle ==
  /\ persons = NoObjects
  /\ facet = "none"
  /\ target = BuilderP
  /\ finalized = 0
  /\ lastSet = NoObjects
  /\ revisit = [f \in {"street_address", "company_name"} |-> 0]

Init ==
  /\ root_name \in RootNames
  /\ pairs \in ArgSeqs
  /\ heap = NoObjects
  /\ ref = NoRef
  /\ elem = NoObjects
  /\ calls = [a \in Approaches |-> 0]
  /\ out = NoObjects
  /\ outAt = NoObjects
  /\ ElementIdle
  /\ TagIdle
  /\ PersonIdle
  /\ JournalIdle

Done(a) == calls[a] = Len(pairs)

\* ---- Approach 1: HTMLBuilder builder(root); builder.add_child(..); ...

Approach1_construct ==
  /\ "builder" \notin DOMAIN heap
  /\ heap' = HTMLBuilder_ctor(heap, "builder", root_name)
  /\ UNCHANGED <<root_name, pairs, ref, elem, calls, out, outAt>>
  /\ UNCHANGED <<elementVars, tagVars, personVars, journalVars>>

Approach1_add_child ==
  /\ "builder" \in DOMAIN heap
  /\ ~Done("builder")
  /\ LET p == pairs[calls["builder"] + 1]
         r == HTMLBuilder_add_child(heap, "builder", p.name, p.text)
     IN  heap' = r.heap
  /\ calls' = [calls EXCEPT !["builder"] = @ + 1]
  /\ UNCHANGED <<root_name, pairs, ref, elem, out, outAt>>
  /\ UNCHANGED <<elementVars, tagVars, personVars, journalVars>>

\* a str() that is not const: it stores the indented text back into the children
Approach1_str_storing_indent ==
  /\ "builder" \in DOMAIN heap
  /\ out' = ("builder" :> HTMLBuilder_str(heap, "builder")) @@ out
  /\ outAt' = ("builder" :> calls["builder"]) @@ outAt
  /\ heap' = [heap EXCEPT !["builder"].root.elements =
                [k \in 1..Len(@) |-> [@[k] EXCEPT !.text = Spaces(indent_size) \o @]]]
  /\ UNCHANGED <<root_name, pairs, ref, elem, calls>>
  /\ UNCHANGED <<elementVars, tagVars, personVars, journalVars>>

Approach1_str ==
  /\ "builder" \in DOMAIN heap
  /\ out' = ("builder" :> HTMLBuilder_str(heap, "builder")) @@ out
  /\ outAt' = ("builder" :> calls["builder"]) @@ outAt
  /\ UNCHANGED <<root_name, pairs, heap, ref, elem, calls>>
  /\ UNCHANGED <<elementVars, tagVars, personVars, journalVars>>

\* ---- Approach 2: fluent_builder.add_child(..).add_child(..);

Approach2_construct ==
  /\ "builder" \in DOMAIN heap
  /\ Done("builder")
  /\ "fluent_builder" \notin DOMAIN heap
  /\ heap' = HTMLBuilder_ctor(heap, "fluent_builder", root_name)
  /\ ref' = NoRef
  /\ UNCHANGED <<root_name, pairs, elem, calls, out, outAt>>
  /\ UNCHANGED <<elementVars, tagVars, personVars, journalVars>>

\* the first call is made on the variable, each later one on the reference
\* the call before it returned
Approach2_add_child ==
  /\ "fluent_builder" \in DOMAIN heap
  /\ "temporary" \notin DOMAIN heap
  /\ "static_builder" \notin DOMAIN elem
  /\ ~Done("fluent_builder")
  /\ LET p == pairs[calls["fluent_builder"] + 1]
         this == IF ref = NoRef THEN "fluent_builder" ELSE ref
         r == HTMLBuilder_add_child(heap, this, p.name, p.text)
     IN  /\ heap' = r.heap
         /\ ref' = r.ret
  /\ calls' = [calls EXCEPT !["fluent_builder"] = @ + 1]
  /\ UNCHANGED <<root_name, pairs, elem, out, outAt>>
  /\ UNCHANGED <<elementVars, tagVars, personVars, journalVars>>

Approach2_str ==
  /\ "fluent_builder" \in DOMAIN heap
  /\ Done("fluent_builder")
  /\ out' = ("fluent_builder" :> HTMLBuilder_str(heap, "fluent_builder")) @@ out
  /\ outAt' = ("fluent_builder" :> calls["fluent_builder"]) @@ outAt
  /\ UNCHANGED <<root_name, pairs, heap, ref, elem, calls>>
  /\ UNCHANGED <<elementVars, tagVars, personVars, journalVars>>

\* ---- Approach 3: HTMLElement static_builder =
\*                    HTMLElement::build(root).add_child(..).add_child(..);

Approach3_build ==
  /\ "fluent_builder" \in DOMAIN heap
  /\ Done("fluent_builder")
  /\ "temporary" \notin DOMAIN heap
  /\ "static_builder" \notin DOMAIN elem
  /\ heap' = HTMLElement_build(heap, root_name)
  /\ ref' = "temporary"
  /\ UNCHANGED <<root_name, pairs, elem, calls, out, outAt>>
  /\ UNCHANGED <<elementVars, tagVars, personVars, journalVars>>

Approach3_add_child ==
  /\ "temporary" \in DOMAIN heap
  /\ ~Done("static_builder")
  /\ LET p == pairs[calls["static_builder"] + 1]
         r == HTMLBuilder_add_child(heap, ref, p.name, p.text)
     IN  /\ heap' = r.heap
         /\ ref' = r.ret
  /\ calls' = [calls EXCEPT !["static_builder"] = @ + 1]
  /\ UNCHANGED <<root_name, pairs, elem, out, outAt>>
  /\ UNCHANGED <<elementVars, tagVars, personVars, journalVars>>

\* the chain's result initialises static_builder; the temporary builder dies
\* at the end of the full expression
Approach3_convert ==
  /\ "temporary" \in DOMAIN heap
  /\ Done("static_builder")
  /\ elem' = ("static_builder" :> HTMLBuilder_operator_HTMLElement(heap, ref)) @@ elem
  /\ heap' = Remove(heap, "temporary")
  /\ ref' = NoRef
  /\ UNCHANGED <<root_name, pairs, calls, out, outAt>>
  /\ UNCHANGED <<elementVars, tagVars, personVars, journalVars>>

Approach3_str ==
  /\ "static_builder" \in DOMAIN elem
  /\ out' = ("static_builder" :> str(elem["static_builder"], 0)) @@ out
  /\ outAt' = ("static_builder" :> calls["static_builder"]) @@ outAt
  /\ UNCHANGED <<root_name, pairs, heap, ref, elem, calls>>
  /\ UNCHANGED <<elementVars, tagVars, personVars, journalVars>>

Next ==
  \/ Approach1_construct
  \/ Approach1_add_child
  \/ Approach1_str
  \/ Approach2_construct
  \/ Approach2_add_child
  \/ Approach2_str
  \/ Approach3_build
  \/ Approach3_add_child
  \/ Approach3_convert
  \/ Approach3_str

Spec == Init /\ [][Next]_vars

\* ------------------------------------------------------- claims: builder

\* the children the first n arguments of pairs stand for
ExpectedChildren(n) ==
  [k \in 1..n |-> [name |-> pairs[k].name, text |-> pairs[k].text, elements |-> << >>]]

\* one child block of the rendering, written out line by line
ChildBlock(p) ==
  <<" ", " ", "<">> \o p.name \o <<">", "\n">>
    \o (IF p.text = Empty THEN << >> ELSE <<" ", " ", " ", " ">> \o p.text \o <<"\n">>)
    \o <<" ", " ", "<", "/">> \o p.name \o <<">", "\n">>

RECURSIVE ChildBlocks(_)
ChildBlocks(n) == IF n = 0 THEN << >> ELSE ChildBlocks(n - 1) \o ChildBlock(pairs[n])

\* the rendering of a root with the first n arguments as children, in call order
ExpectedRendering(n) ==
  <<"<">> \o root_name \o <<">", "\n">> \o ChildBlocks(n)
    \o <<"<", "/">> \o root_name \o <<">", "\n">>

CallsOn(b) == calls[IF b = "temporary" THEN "static_builder" ELSE b]

\* C1: after N add_child calls on a fresh builder the root has exactly N
\* children, the i-th being (name_i, text_i), and str() lists the child blocks
\* in call order.
C1_OrderPreserved ==
  /\ \A b \in DOMAIN heap :
       /\ Len(heap[b].root.elements) = CallsOn(b)
       /\ heap[b].root.elements = ExpectedChildren(CallsOn(b))
  /\ \A a \in (DOMAIN out) \ {"static_builder"} : out[a] = ExpectedRendering(outAt[a])

C1_Witness ==
  /\ "builder" \in DOMAIN out
  /\ outAt["builder"] >= 2
  /\ pairs[1] # pairs[2]
  /\ Len(heap["builder"].root.elements) = outAt["builder"]

\* the eight lines of the README's expected output for Approach 1
UlHelloWorld ==
  <<"<", "u", "l", ">", "\n">>
    \o <<" ", " ", "<", "l", "i", ">", "\n">>
    \o <<" ", " ", " ", " ", "H", "e", "l", "l", "o", "\n">>
    \o <<" ", " ", "<", "/", "l", "i", ">", "\n">>
    \o <<" ", " ", "<", "l", "i", ">", "\n">>
    \o <<" ", " ", " ", " ", "W", "o", "r", "l", "d", "\n">>
    \o <<" ", " ", "<", "/", "l", "i", ">", "\n">>
    \o <<"<", "/", "u", "l", ">", "\n">>

IsUlHelloWorldRun ==
  /\ root_name = ul
  /\ pairs = <<[name |-> li, text |-> Hello], [name |-> li, text |-> World]>>
  /\ "builder" \in DOMAIN out
  /\ outAt["builder"] = 2

\* C3: root "ul", add_child("li","Hello"), add_child("li","World"): str() is
\* exactly the eight lines <ul>, <li>, Hello, </li>, <li>, World, </li>, </ul>
\* with their indentation, each ended by one newline.
C3_UlHelloWorld == IsUlHelloWorldRun => out["builder"] = UlHelloWorld

C3_Witness == IsUlHelloWorldRun /\ Len(out["builder"]) = Len(UlHelloWorld)

\* the tree an approach holds now
TreeOf(a) ==
  IF a = "static_builder" THEN elem[a] ELSE heap[a].root

StrStep == Approach1_str \/ Approach2_str \/ Approach3_str

\* an output that no add_child has followed is what str() returns now
FreshOutputsRepeat ==
  \A a \in DOMAIN out : outAt[a] = calls[a] => out[a] = str(TreeOf(a), 0)

\* C4: str() never changes the tree, and a second str() with no add_child in
\* between returns the string the first returned.
C4_RenderPure ==
  /\ [][StrStep => (heap' = heap /\ elem' = elem)]_vars
  /\ []FreshOutputsRepeat

C4_Witness ==
  /\ "builder" \in DOMAIN out
  /\ outAt["builder"] = calls["builder"]
  /\ calls["builder"] >= 1
  /\ \E k \in 1..calls["builder"] : heap["builder"].root.elements[k].text # Empty

AllRendered ==
  /\ DOMAIN out = Approaches
  /\ \A a \in Approaches : outAt[a] = Len(pairs)

\* C10: sequential add_child statements, chained add_child calls and
\* HTMLElement::build(root) chained and converted give, for the same root name
\* and arguments, the same tree and the same str(); add_child returns a
\* reference to the builder it was called on.
C10_IdiomsAgree ==
  /\ ref # NoRef =>
       ref = (IF "temporary" \in DOMAIN heap THEN "temporary" ELSE "fluent_builder")
  /\ "static_builder" \in DOMAIN elem =>
       /\ heap["builder"].root = heap["fluent_builder"].root
       /\ heap["fluent_builder"].root = elem["static_builder"]
  /\ AllRendered =>
       /\ out["builder"] = out["fluent_builder"]
       /\ out["fluent_builder"] = out["static_builder"]

C10_Witness ==
  /\ AllRendered
  /\ Len(pairs) >= 2
  /\ Len(elem["static_builder"].elements) = Len(pairs)

\* every HTMLElement a builder has built so far: the roots the live builders
\* own and the converted static_builder
BuiltRoots ==
  { heap[b].root : b \in DOMAIN heap } \cup { elem[v] : v \in DOMAIN elem }

\* C11: the root name is fixed at construction: after any add_child, str()
\* and conversion calls the root is still named root_name, also when a child
\* with the root's name was appended.
C11_RootNameFixed == \A r \in BuiltRoots : r.name = root_name

C11_Witness ==
  /\ "static_builder" \in DOMAIN elem
  /\ "static_builder" \in DOMAIN out
  /\ \E k \in 1..Len(elem["static_builder"].elements) :
       elem["static_builder"].elements[k].name = root_name
  /\ \E k \in 1..Len(heap["builder"].root.elements) :
       heap["builder"].root.elements[k].name # root_name

\* a step keeps the children a builder already had
KeepsChildren ==
  \A b \in (DOMAIN heap) \cap (DOMAIN heap') :
    /\ Len(heap'[b].root.elements) >= Len(heap[b].root.elements)
    /\ \A k \in 1..Len(heap[b].root.elements) :
         heap'[b].root.elements[k] = heap[b].root.elements[k]

\* C12: a tree built through HTMLBuilder has depth at most 1: the root has no
\* text, every child is a leaf, add_child leaves the earlier children as they
\* were, and so no node has both text and children.
C12_DepthAtMostOne ==
  /\ [](\A r \in BuiltRoots :
          /\ r.text = Empty
          /\ \A k \in 1..Len(r.elements) : r.elements[k].elements = << >>
          /\ \A k \in 1..Len(r.elements) :
               ~(r.elements[k].text # Empty /\ r.elements[k].elements # << >>))
  /\ [][KeepsChildren]_vars

C12_Witness ==
  /\ "builder" \in DOMAIN heap
  /\ Len(heap["builder"].root.elements) >= 2
  /\ heap["builder"].root.elements[1].text # Empty
  /\ "static_builder" \in DOMAIN elem
  /\ Len(elem["static_builder"].elements) >= 2

\* ------------------------------------------------- HTMLElement::str alone

NodeNames == {ul, li}
NodeTexts == {Empty, Hello}

RECURSIVE TreesOfSize(_)
RECURSIVE ForestsOfSize(_)

\* the HTMLElement trees of exactly n nodes
TreesOfSize(n) ==
  IF n = 0
    THEN {}
    ELSE { [name |-> nm, text |-> tx, elements |-> f] :
             nm \in NodeNames, tx \in NodeTexts, f \in ForestsOfSize(n - 1) }

\* the sequences of trees of n nodes in all
ForestsOfSize(n) ==
  IF n = 0
    THEN { << >> }
    ELSE UNION { { <<t>> \o f : t \in TreesOfSize(k), f \in ForestsOfSize(n - k) } :
                 k \in 1..n }

Trees == UNION { TreesOfSize(n) : n \in 1..MaxNodes }

ElementInit ==
  /\ node \in Trees
  /\ rendered = NoObjects
  /\ BuilderIdle
  /\ TagIdle
  /\ PersonIdle
  /\ JournalIdle

\* std::string s = node.str();
Element_str ==
  /\ rendered' = ("str" :> str(node, 0))
  /\ UNCHANGED <<node, builderVars, tagVars, personVars, journalVars>>

ElementNext == Element_str

SpecElement == ElementInit /\ [][ElementNext]_vars

\* ------------------------------------------------------- claims: rendering

\* the positions of the newlines of s, and the k-th of them (0 for k = 0)
NewlinesOf(s) == { k \in 1..Len(s) : s[k] = "\n" }
NewlineNo(s, k) ==
  IF k = 0 THEN 0
  ELSE CHOOSE i \in NewlinesOf(s) : Cardinality({ j \in NewlinesOf(s) : j <= i }) = k

\* the lines of s (without their newline) and what follows the last newline
Split(s) ==
  LET n == Cardinality(NewlinesOf(s))
  IN  [ lines |-> [k \in 1..n |-> SubSeq(s, NewlineNo(s, k - 1) + 1, NewlineNo(s, k) - 1)],
        rest  |-> SubSeq(s, NewlineNo(s, n) + 1, Len(s)) ]

RECURSIVE Layout(_, _)
RECURSIVE LayoutAll(_, _, _)
\* the lines a node at depth d stands for: its opening tag, its text if it has
\* one, the lines of its children, its closing tag
Layout(e, d) ==
  <<[kind |-> "open", depth |-> d, body |-> <<"<">> \o e.name \o <<">">>]>>
    \o (IF e.text = Empty THEN << >>
        ELSE <<[kind |-> "text", depth |-> d, body |-> e.text]>>)
    \o LayoutAll(e.elements, 1, d + 1)
    \o <<[kind |-> "close", depth |-> d, body |-> <<"<", "/">> \o e.name \o <<">">>]>>

LayoutAll(es, k, d) ==
  IF k > Len(es) THEN << >> ELSE Layout(es[k], d) \o LayoutAll(es, k + 1, d)

\* the number of spaces a line starts with
LeadingSpaces(l) ==
  IF \A k \in 1..Len(l) : l[k] = " "
    THEN Len(l)
    ELSE (CHOOSE k \in 1..Len(l) : l[k] # " " /\ \A j \in 1..(k - 1) : l[j] = " ") - 1

Drop(l, n) == [k \in 1..(Len(l) - n) |-> l[k + n]]

\* C2: in str(0) of any tree, a node at depth d has its opening and closing
\* tag lines behind exactly 2*d spaces and its text line, when the text is not
\* empty, behind exactly 2*(d+1) spaces; a node with empty text has no text line.
C2_Indentation ==
  "str" \in DOMAIN rendered =>
    LET sp == Split(rendered["str"])
        lay == Layout(node, 0)
    IN  /\ sp.rest = << >>
        /\ Len(sp.lines) = Len(lay)
        /\ \A k \in 1..Len(lay) :
             LET want == IF lay[k].kind = "text"
                           THEN 2 * (lay[k].depth + 1)
                           ELSE 2 * lay[k].depth
             IN  /\ LeadingSpaces(sp.lines[k]) = want
                 /\ Drop(sp.lines[k], want) = lay[k].body

C2_Witness ==
  /\ "str" \in DOMAIN rendered
  /\ node.text = Empty
  /\ \E i \in 1..Len(node.elements) :
       \E j \in 1..Len(node.elements[i].elements) :
         node.elements[i].elements[j].text # Empty

\* ------------------------------------------------------------ Tag program

Urls == {x_png, y_png}
TagTexts == {Empty, Hi}
AttrPool == { <<src, x_png>>, <<src, y_png>>, <<alt, a_quote_b>> }
AttrSeqs == UNION { [1..k -> AttrPool] : k \in 0..MaxAttrs }

\* Tag's members are public: a Tag may hold any name, text and attributes
TagInputs ==
  { [name |-> n, text |-> t, children |-> << >>, attributes |-> a] :
      n \in {p_, img}, t \in TagTexts, a \in AttrSeqs }

RECURSIVE TagDepth(_)
RECURSIVE MaxChildDepth(_, _)
TagDepth(t) == 1 + MaxChildDepth(t.children, 1)
MaxChildDepth(cs, k) ==
  IF k > Len(cs) THEN 0
  ELSE LET a == TagDepth(cs[k])
           b == MaxChildDepth(cs, k + 1)
       IN  IF a > b THEN a ELSE b

TagInit ==
  /\ tag \in TagInputs
  /\ os = << >>
  /\ BuilderIdle
  /\ ElementIdle
  /\ PersonIdle
  /\ JournalIdle

\* IMG {url}
Tag_make_IMG ==
  /\ os = << >>
  /\ \E u \in Urls : tag' = IMG(u)
  /\ UNCHANGED <<os, builderVars, elementVars, personVars, journalVars>>

\* P {"text"}
Tag_make_P_text ==
  /\ os = << >>
  /\ \E t \in TagTexts : tag' = P_text(t)
  /\ UNCHANGED <<os, builderVars, elementVars, personVars, journalVars>>

\* P { child, ... } around the Tag built so far
Tag_make_P_children ==
  /\ os = << >>
  /\ TagDepth(tag) < MaxTagDepth
  /\ \E cs \in { << >>, <<tag>>, <<tag, IMG(x_png)>> } : tag' = P_children(cs)
  /\ UNCHANGED <<os, builderVars, elementVars, personVars, journalVars>>

\* std::cout << tag;
Tag_output ==
  /\ os = << >>
  /\ os' = Tag_print(os, tag)
  /\ UNCHANGED <<tag, builderVars, elementVars, personVars, journalVars>>

TagNext ==
  \/ Tag_make_IMG
  \/ Tag_make_P_text
  \/ Tag_make_P_children
  \/ Tag_output

SpecTag == TagInit /\ [][TagNext]_vars

\* ------------------------------------------------------------ claims: Tag

Printed == os # << >>

EndsWith(l, suffix) ==
  /\ Len(l) >= Len(suffix)
  /\ \A k \in 1..Len(suffix) : l[Len(l) - Len(suffix) + k] = suffix[k]

RECURSIVE AttributeText(_)
\* name="value" for each attribute, each behind one space, in sequence order
AttributeText(attributes) ==
  IF attributes = << >>
    THEN << >>
    ELSE AttributeText(SubSeq(attributes, 1, Len(attributes) - 1))
           \o <<" ">> \o attributes[Len(attributes)][1]
           \o <<"=", "\"">> \o attributes[Len(attributes)][2] \o <<"\"">>

IsImgOf(u) ==
  /\ tag.name = img
  /\ tag.attributes = << <<src, u>> >>
  /\ tag.text = Empty
  /\ tag.children = << >>

\* C6: the opening tag carries every attribute as name="value" between the
\* tag name and ">" or "/>", in insertion order, duplicate keys each written,
\* values unescaped; an IMG of url u is the single line <img src="u"/>.
C6_AttributesInOrder ==
  Printed =>
    /\ LET first == Split(os).lines[1]
           opening == <<"<">> \o tag.name \o AttributeText(tag.attributes)
       IN  first \in { opening \o <<">">>, opening \o <<"/", ">">> }
    /\ \A u \in Urls :
         IsImgOf(u) =>
           os = <<"<", "i", "m", "g", " ", "s", "r", "c", "=", "\"">> \o u
                  \o <<"\"", "/", ">", "\n">>

C6_Witness == Printed /\ IsImgOf(x_png)

C6_DuplicateKeysPrinted ==
  /\ Printed
  /\ Len(tag.attributes) >= 2
  /\ tag.attributes[1][1] = tag.attributes[2][1]
  /\ tag.attributes[1][2] # tag.attributes[2][2]

IsPOfImg(u) == tag = P_children(<<IMG(u)>>)

\* C7: the Tag output is indented like the HTMLElement output, two spaces per
\* nesting level: P{ IMG{u} } is the lines <p>, "  <img src="u"/>", </p>.
C7_TagIndented ==
  \A u \in Urls :
    (Printed /\ IsPOfImg(u)) =>
      os = <<"<", "p", ">", "\n">>
             \o <<" ", " ", "<", "i", "m", "g", " ", "s", "r", "c", "=", "\"">> \o u
             \o <<"\"", "/", ">", "\n">>
             \o <<"<", "/", "p", ">", "\n">>

\* --------------------------------------------------------- Person program

Streets == {"123 London Road", "221B Baker Street"}
PostCodes == {"SW1 1GB"}
Cities == {"London"}
Companies == {"PragmaSoft", "Initech"}
Positions == {"Consultant"}
Incomes == {10000000}

\* Person::create()
PersonInit ==
  /\ persons = Person_create(NoObjects)
  /\ facet = "PersonBuilder"
  /\ target = BuilderP
  /\ finalized = 0
  /\ lastSet = NoObjects
  /\ revisit = [f \in {"street_address", "company_name"} |-> 0]
  /\ BuilderIdle
  /\ ElementIdle
  /\ TagIdle
  /\ JournalIdle

Building == finalized = 0

\* the scenario of a field: counted when the other facet is entered after the
\* field was set, and when the field is then set to another value
AfterLeaving(f) == IF revisit[f] = 1 THEN 2 ELSE revisit[f]
AfterSetting(f, v) ==
  IF revisit[f] = 0 THEN 1
  ELSE IF revisit[f] = 2 /\ persons[target][f] # v THEN 3
  ELSE revisit[f]

\* .lives()
lives ==
  /\ Building
  /\ facet' = "PersonAddressBuilder"
  /\ target' = PersonBuilderBase_facet(target)
  /\ revisit' = [revisit EXCEPT !["company_name"] = AfterLeaving("company_name")]
  /\ UNCHANGED <<persons, finalized, lastSet, builderVars, elementVars, tagVars, journalVars>>

\* .works()
works ==
  /\ Building
  /\ facet' = "PersonJobBuilder"
  /\ target' = PersonBuilderBase_facet(target)
  /\ revisit' = [revisit EXCEPT !["street_address"] = AfterLeaving("street_address")]
  /\ UNCHANGED <<persons, finalized, lastSet, builderVars, elementVars, tagVars, journalVars>>

\* .at(address) on the address facet
address_at ==
  /\ Building
  /\ facet = "PersonAddressBuilder"
  /\ \E v \in Streets :
       /\ persons' = PersonAddressBuilder_at(persons, target, v)
       /\ lastSet' = ("street_address" :> v) @@ lastSet
       /\ revisit' = [revisit EXCEPT !["street_address"] = AfterSetting("street_address", v)]
  /\ UNCHANGED <<facet, target, finalized, builderVars, elementVars, tagVars, journalVars>>

\* .with_postcode(post_code)
address_with_postcode ==
  /\ Building
  /\ facet = "PersonAddressBuilder"
  /\ \E v \in PostCodes :
       /\ persons' = PersonAddressBuilder_with_postcode(persons, target, v)
       /\ lastSet' = ("post_code" :> v) @@ lastSet
  /\ UNCHANGED <<facet, target, finalized, revisit, builderVars, elementVars, tagVars, journalVars>>

\* .in(city)
address_in ==
  /\ Building
  /\ facet = "PersonAddressBuilder"
  /\ \E v \in Cities :
       /\ persons' = PersonAddressBuilder_in(persons, target, v)
       /\ lastSet' = ("city" :> v) @@ lastSet
  /\ UNCHANGED <<facet, target, finalized, revisit, builderVars, elementVars, tagVars, journalVars>>

\* .at(company_name) on the job facet
job_at ==
  /\ Building
  /\ facet = "PersonJobBuilder"
  /\ \E v \in Companies :
       /\ persons' = PersonJobBuilder_at(persons, target, v)
       /\ lastSet' = ("company_name" :> v) @@ lastSet
       /\ revisit' = [revisit EXCEPT !["company_name"] = AfterSetting("company_name", v)]
  /\ UNCHANGED <<facet, target, finalized, builderVars, elementVars, tagVars, journalVars>>

\* .as_a(position)
job_as_a ==
  /\ Building
  /\ facet = "PersonJobBuilder"
  /\ \E v \in Positions :
       /\ persons' = PersonJobBuilder_as_a(persons, target, v)
       /\ lastSet' = ("position" :> v) @@ lastSet
  /\ UNCHANGED <<facet, target, finalized, revisit, builderVars, elementVars, tagVars, journalVars>>

\* .earning(annual_income)
job_earning ==
  /\ Building
  /\ facet = "PersonJobBuilder"
  /\ \E v \in Incomes :
       /\ persons' = PersonJobBuilder_earning(persons, target, v)
       /\ lastSet' = ("annual_income" :> v) @@ lastSet
  /\ UNCHANGED <<facet, target, finalized, revisit, builderVars, elementVars, tagVars, journalVars>>

\* Person p = <chain>;  each conversion initialises one more Person
convert_to_Person ==
  /\ finalized < MaxFinalize
  /\ persons' = PersonBuilderBase_operator_Person(persons, target, ResultNo(finalized + 1))
  /\ finalized' = finalized + 1
  /\ UNCHANGED <<facet, target, lastSet, revisit, builderVars, elementVars, tagVars, journalVars>>

PersonNext ==
  \/ lives
  \/ works
  \/ address_at
  \/ address_with_postcode
  \/ address_in
  \/ job_at
  \/ job_as_a
  \/ job_earning
  \/ convert_to_Person

SpecPerson == PersonInit /\ [][PersonNext]_vars

\* --------------------------------------------------------- claims: Person

\* C8: facets may be visited in any order and any number of times and all
\* write to one shared Person: the finalized Person has, for each field, the
\* value of the last setter call, also when the field is set through one
\* facet, another facet is visited, and the field is set again.
C8_LastWriteWins ==
  /\ target = BuilderP
  /\ ResultNo(1) \in DOMAIN persons =>
       \A f \in DOMAIN lastSet : persons[ResultNo(1)][f] = lastSet[f]
  /\ Building =>
       \A f \in DOMAIN lastSet : persons[BuilderP][f] = lastSet[f]

C8_Witness ==
  /\ ResultNo(1) \in DOMAIN persons
  /\ revisit["street_address"] = 3
  /\ persons[ResultNo(1)].street_address = lastSet["street_address"]
  /\ "company_name" \in DOMAIN lastSet

Holders(st) == { x \in DOMAIN persons : persons[x].storage = st }

\* C9: the conversion to Person hands over exactly one Person, by move: the
\* first result owns what the chain built, the builder's Person no longer
\* does, and no two Persons share storage.
C9_SingleTransfer ==
  /\ Cardinality(Holders(CreatedStorage)) = 1
  /\ \A x \in DOMAIN persons : persons[x].storage \in {CreatedStorage, NoStorage}
  /\ finalized >= 1 =>
       /\ Holders(CreatedStorage) = {ResultNo(1)}
       /\ persons[BuilderP] = Person_moved_from
       /\ \A f \in DOMAIN lastSet : persons[ResultNo(1)][f] = lastSet[f]
       /\ \A n \in 2..finalized : persons[ResultNo(n)] = Person_moved_from

C9_Witness ==
  /\ finalized >= 2
  /\ DOMAIN lastSet # {}

\* -------------------------------------------------------- Journal program

JournalNames == {"journal", "other"}
TitleOf(j) == IF j = "journal" THEN "My Journal" ELSE "Other Journal"
EntryTexts == {cried, bug}
FileNames == {"journal.txt"}

\* the start of main: no Journal yet, count is 1
JournalInit ==
  /\ journals = NoObjects
  /\ count = 1
  /\ files = NoObjects
  /\ log = << >>
  /\ savedFrom = NoObjects
  /\ BuilderIdle
  /\ ElementIdle
  /\ TagIdle
  /\ PersonIdle

\* Journal journal("My Journal");
Journal_construct ==
  /\ \E j \in JournalNames \ DOMAIN journals :
       journals' = Journal_ctor(journals, j, TitleOf(j))
  /\ UNCHANGED <<count, files, log, savedFrom, builderVars, elementVars, tagVars, personVars>>

\* journal.add_entry("...");
Journal_add ==
  /\ Len(log) < MaxCalls
  /\ \E j \in DOMAIN journals, e \in EntryTexts :
       LET r == Journal_add_entry(journals, count, j, e)
       IN  /\ journals' = r.journals
           /\ count' = r.count
           /\ log' = Append(log, [journal |-> j, entry |-> e])
  /\ UNCHANGED <<files, savedFrom, builderVars, elementVars, tagVars, personVars>>

\* PersistenceManager::save(journal, "journal.txt");
Journal_save ==
  /\ \E j \in DOMAIN journals, f \in FileNames :
       /\ files' = PersistenceManager_save(files, journals[j], f)
       /\ savedFrom' = (f :> [journal |-> j, length |-> Len(journals[j].entries)]) @@ savedFrom
  /\ UNCHANGED <<journals, count, log, builderVars, elementVars, tagVars, personVars>>

JournalNext ==
  \/ Journal_construct
  \/ Journal_add
  \/ Journal_save

SpecJournal == JournalInit /\ [][JournalNext]_vars

\* -------------------------------------------------------- claims: Journal

\* n written in decimal, for the numbers a run reaches
Decimal(n) ==
  IF n < 10 THEN <<DigitChars[n + 1]>>
  ELSE <<DigitChars[(n \div 10) + 1], DigitChars[(n % 10) + 1]>>

\* the add_entry calls made on journal j, as their numbers among all calls
CallsOf(j) == { n \in 1..Len(log) : log[n].journal = j }
CallNo(j, k) ==
  CHOOSE n \in CallsOf(j) : Cardinality({ m \in CallsOf(j) : m <= n }) = k

\* what journal j holds if the n-th call of the program appends "n: " and its text
ExpectedEntries(j) ==
  [k \in 1..Cardinality(CallsOf(j)) |->
     Decimal(CallNo(j, k)) \o <<":", " ">> \o log[CallNo(j, k)].entry]

RECURSIVE OnePerLine(_, _)
\* the first n of the entries, each followed by a newline
OnePerLine(entries, n) ==
  IF n = 0 THEN << >> ELSE OnePerLine(entries, n - 1) \o entries[n] \o <<"\n">>

StartsWith(l, prefix) ==
  /\ Len(l) >= Len(prefix)
  /\ \A k \in 1..Len(prefix) : l[k] = prefix[k]

\* journal j has entries, and they are numbered 1, 2, .., k
NumberedFromOne(j) ==
  /\ journals[j].entries # << >>
  /\ \A k \in 1..Len(journals[j].entries) :
       StartsWith(journals[j].entries[k], Decimal(k) \o <<":", " ">>)

\* the entry of the n-th add_entry call of the program is "n: " and the text,
\* at the end of its journal
SharedNumbering ==
  /\ count = Len(log) + 1
  /\ \A j \in DOMAIN journals : journals[j].entries = ExpectedEntries(j)

\* a saved file holds the entries, one per line, in sequence order
SavedInOrder ==
  \A f \in DOMAIN files :
    files[f] = OnePerLine(ExpectedEntries(savedFrom[f].journal), savedFrom[f].length)

\* C13 as claimed: add_entry numbers with one counter shared by all Journals;
\* a journal's entries are numbered 1..k only if no other journal received an
\* entry; save writes the entries one per line in order.
C13_AsClaimed ==
  /\ SharedNumbering
  /\ \A j \in DOMAIN journals :
       NumberedFromOne(j) =>
         \A o \in (DOMAIN journals) \ {j} : journals[o].entries = << >>
  /\ SavedInOrder

\* C13, amended: add_entry numbers with one counter shared by all Journals;
\* a journal's entries are numbered 1..k only if no other journal received an
\* entry before that journal's last entry; save writes the entries one per
\* line in order and leaves the journal and the counter as they were.
C13_SharedCounter ==
  /\ [](/\ SharedNumbering
        /\ \A j \in DOMAIN journals :
             NumberedFromOne(j) => CallsOf(j) = 1..Len(journals[j].entries)
        /\ SavedInOrder)
  /\ [][Journal_save => (journals' = journals /\ count' = count)]_vars

C13_Witness ==
  /\ DOMAIN journals = JournalNames
  /\ Len(journals["journal"].entries) >= 2
  /\ NumberedFromOne("journal")
  /\ journals["other"].entries # << >>
  /\ "journal.txt" \in DOMAIN files
  /\ savedFrom["journal.txt"] = [journal |-> "journal", length |-> 2]

====
